---- MODULE Spec2Model ----
(***************************************************************************)
(* Session lifecycle and media-pipeline coordinator of the gaming          *)
(* assistant demo.                                                         *)
(*                                                                         *)
(*   LiveAPIDemo (src/src/components/LiveAPIDemo.jsx) is the Lifecycle     *)
(*   Coordinator: its imperative handle (connect, disconnect, toggleAudio, *)
(*   toggleScreen, setConfig) and the callbacks it installs on the client  *)
(*   (onConnectionStarted, onClose, onErrorMessage, onReceiveResponse).    *)
(*                                                                         *)
(*   GeminiLiveAPI is the Session Protocol Controller.  Its file is not    *)
(*   among the sources; the handlers that src/DEBUGGING_PLAN.md gives      *)
(*   (webSocket.onopen, onReceiveMessage, webSocket.onclose with the       *)
(*   auto-reconnect, the constructor fields) are modelled from those       *)
(*   listings, and what no listing gives (the bodies of connect() and      *)
(*   disconnect(), the connection-state transitions, the media classes)    *)
(*   is modelled from the specification.                                   *)
(*                                                                         *)
(* Every action is one run-to-completion step of the single event loop:    *)
(* a method call, a WebSocket event, a timer callback, or the continuation *)
(* of an await.                                                            *)
(*                                                                         *)
(* Spec is the whole program.  SpecSession is the connection lifecycle     *)
(* alone (handshake and reconnection policy), FairSession the same with    *)
(* the close event of a closing transport eventually delivered, and        *)
(* SpecLifetime the same with the unmount of the component.  SpecMedia is  *)
(* the media pipelines, and SpecPlayback the audio player, against the     *)
(* session with its reconnection policy.  The media steps read only        *)
(* client.connected and write none of the session's variables.             *)
(***************************************************************************)
EXTENDS Integers, Sequences, FiniteSets, TLC

\* ------------------------------------------------------------- constants

\* GeminiLiveAPI constructor: this.maxReconnectAttempts = 5
maxReconnectAttempts == 5
\* GeminiLiveAPI constructor: this.reconnectDelay = 1000
reconnectDelay == 1000

\* Bounds of the model.
\* Retry timers that may be pending at once (an explicit connect() is not
\* explored while this many are pending).
MaxTimers == 2
\* AudioStreamer and ScreenCapture objects that may exist at once (starting,
\* holding a device, or left running after their track ended).
MaxProducers == 2
\* Audio segments that may wait in the playback queue behind the one rendering.
MaxQueue == 2
\* SETUP_COMPLETE frames the relay may send on one transport.
MaxSetups == 2

\* Values of projectId the caller supplies to setConfig ("" clears the field).
ProjectIds == {"", "p1", "p2"}

\* MultimodalLiveResponseType tags switched on by handleGeminiResponse; any
\* other value takes the default branch ("UNKNOWN").
FrameTags ==
  {"SETUP_COMPLETE", "AUDIO", "TEXT", "TURN_COMPLETE", "INTERRUPTED",
   "INPUT_TRANSCRIPTION", "OUTPUT_TRANSCRIPTION", "TOOL_CALL", "ERROR", "UNKNOWN"}

\* Decoded audio segments an AUDIO frame carries (message.data).
Segments == {"a1", "a2"}

\* connectionState values (DEBUGGING_PLAN.md 2.2).
ConnectionStates ==
  {"disconnected", "connecting", "connected", "disconnecting", "error"}

VARIABLES
  \* ---- GeminiLiveAPI
  projectId,          \* client.projectId
  connected,          \* client.connected
  connectionState,    \* client.connectionState
  reconnectAttempts,  \* client.reconnectAttempts
  autoReconnect,      \* client.autoReconnect
  webSocket,          \* readyState of client.webSocket ("NONE" before the first connect)
  retryTimers,        \* number of pending setTimeout retry callbacks
  heartbeatInterval,  \* client.heartbeatInterval: "null", or "set": the handle of a running interval
  heartbeatStray,     \* an interval is running whose handle startHeartbeat has overwritten
  \* ---- LiveAPIDemo
  config,             \* config.projectId (useState)
  isConnected,        \* useState
  isAudioStreaming,   \* useState
  isScreenSharing,    \* useState
  audioStreamerRef,   \* audioStreamerRef.current: "null", "active": a streamer holding the microphone, or "stopped": a streamer whose stop() was called
  screenCaptureRef,   \* screenCaptureRef.current: "null", "active": a capture holding the display, or "stopped"
  mounted,            \* the component is mounted: the cleanup of its mount effect has not run
  \* ---- AudioStreamer / ScreenCapture objects, which the code does not name:
  \*      counted by condition
  audioStarting,      \* streamers whose start() a toggleAudio call is awaiting
  audioOrphans,       \* streamers holding the microphone that audioStreamerRef does not reference
  screenStarting,     \* captures whose start() a toggleScreen call is awaiting
  screenOrphans,      \* captures holding the display that screenCaptureRef does not reference
  screenEnded,        \* captures whose track has ended and whose stop() has not been called
  \* ---- AudioPlayer
  rendering,          \* the segment being rendered, or "none"
  playQueue,          \* the segments queued behind it, in arrival order
  playerDestroyed,    \* calls of audioPlayer.destroy() so far
  \* ---- what the parent last heard through the props callbacks
  connReported,       \* onConnectionChange
  audioReported,      \* onAudioStreamChange
  screenReported,     \* onScreenShareChange
  previewReported,    \* onPreviewStreamChange: "null" or "stream"
  \* ---- history of the run (not program state)
  setupAcked,         \* a SETUP_COMPLETE frame has arrived on the current transport
  startedEmits,       \* onConnectionStarted calls since the current transport was opened
  closedEmits,        \* onClose calls since the current transport was opened
  retryAsked,         \* how many pending retries a disconnect() or flag toggle was to suppress
  openedBy,           \* what opened the current transport: "connect", "errorConnect" (connect() from error), "retry"
  hist                \* the step that led here

vars ==
  <<projectId, connected, connectionState, reconnectAttempts, autoReconnect,
    webSocket, retryTimers, heartbeatInterval, heartbeatStray, config, isConnected, isAudioStreaming,
    isScreenSharing, audioStreamerRef, screenCaptureRef, audioStarting,
    audioOrphans, screenStarting, screenOrphans, screenEnded, rendering,
    playQueue, mounted, playerDestroyed, connReported, audioReported,
    screenReported, previewReported, setupAcked, startedEmits, closedEmits,
    retryAsked,
    openedBy, hist>>

heartbeatVars == <<heartbeatInterval, heartbeatStray>>

clientVars ==
  <<projectId, connected, connectionState, reconnectAttempts, autoReconnect,
    webSocket, retryTimers, heartbeatInterval, heartbeatStray>>

audioVars ==
  <<isAudioStreaming, audioStreamerRef, audioStarting, audioOrphans, audioReported>>

screenVars ==
  <<isScreenSharing, screenCaptureRef, screenStarting, screenOrphans, screenEnded,
    screenReported, previewReported>>

playerVars == <<rendering, playQueue>>

lifeVars == <<mounted, playerDestroyed>>

connVars == <<isConnected, connReported>>

ghostVars == <<setupAcked, startedEmits, closedEmits, retryAsked, openedBy>>

\* The step record.  op names the method call, lifecycle event, timer step or
\* await continuation that ran; alert says the step showed an alert(); asked
\* says the retry that fired was one a disconnect() or flag toggle was to
\* suppress; voluntary says the closure followed a disconnect(); stale says
\* the closed handler found a registered handle whose cached flag was false;
\* stopped counts the handles the closed handler stopped; sched is the delay
\* in ms of the retry the step scheduled (0: none); tag and seg are the type
\* and the audio data of the frame the step dispatched to onReceiveResponse
\* ("": none), connectedSeen and startedSeen are client.connected and the
\* number of started events at the moment of that dispatch; dropped is the
\* number of segments (rendering or waiting) an INTERRUPTED frame found in
\* the player, repeated by an AUDIO frame that comes right after it; sent
\* says the heartbeat tick transmitted its payload.
Hist(op) ==
  [op |-> op, alert |-> FALSE, asked |-> FALSE, voluntary |-> FALSE,
   stale |-> FALSE, stopped |-> 0, sched |-> 0, tag |-> "", seg |-> "",
   connectedSeen |-> FALSE, startedSeen |-> 0, dropped |-> 0,
   sent |-> FALSE]

\* ------------------------------------------------------------- helpers

RECURSIVE Pow2(_)
\* Math.pow(2, n) for n >= 0
Pow2(n) == IF n <= 0 THEN 1 ELSE 2 * Pow2(n - 1)

\* The delay with the exponent not taken back by one after the increment:
\* this.reconnectDelay * Math.pow(2, this.reconnectAttempts).
BackoffDelay_ExponentOff(attempts) == reconnectDelay * Pow2(attempts)

\* const delay = this.reconnectDelay * Math.pow(2, this.reconnectAttempts - 1),
\* evaluated after this.reconnectAttempts++
BackoffDelay(attempts) == reconnectDelay * Pow2(attempts - 1)

\* ------------------------------------------------------------- media classes

\* Capture devices held: every streamer (capture) that started and was not
\* stopped holds the microphone (display), referenced or not.
AudioDevicesHeld == (IF audioStreamerRef = "active" THEN 1 ELSE 0) + audioOrphans
ScreenDevicesHeld == (IF screenCaptureRef = "active" THEN 1 ELSE 0) + screenOrphans

\* AudioStreamer objects in use; likewise captures (MaxProducers bounds their sum).
AudioObjects == audioStarting + AudioDevicesHeld
ScreenObjects == screenStarting + ScreenDevicesHeld + screenEnded

\* Captures whose production loop is running: started and stop() not called,
\* whether the track is live or has ended.
ScreenLoopsRunning == ScreenDevicesHeld + screenEnded

\* ------------------------------------------------------------- LiveAPIDemo callbacks

\* client.onConnectionStarted
OnConnectionStarted ==
  /\ isConnected' = TRUE
  /\ connReported' = TRUE
  /\ startedEmits' = startedEmits + 1

\* The closed handler as DEBUGGING_PLAN.md 3.1 first proposes it, trusting the
\* cached flag: if (audioStreaming && audioStreamerRef.current).
OnCloseAudio_FlagChecked ==
  IF isAudioStreaming /\ audioStreamerRef # "null"
    THEN /\ audioStreamerRef' = "null"
         /\ isAudioStreaming' = FALSE
         /\ audioReported' = FALSE
         /\ UNCHANGED <<audioStarting, audioOrphans>>
    ELSE UNCHANGED audioVars

\* client.onClose, the audio half: the live ref decides, not isAudioStreaming.
\* audioStreamerRef.current.stop() releases the microphone of the referenced
\* streamer, and the ref is cleared; streamers the ref does not reach stay.
OnCloseAudio ==
  IF audioStreamerRef # "null"
    THEN /\ audioStreamerRef' = "null"
         /\ isAudioStreaming' = FALSE
         /\ audioReported' = FALSE
         /\ UNCHANGED <<audioStarting, audioOrphans>>
    ELSE UNCHANGED audioVars

\* client.onClose, the screen half.
OnCloseScreen ==
  IF screenCaptureRef # "null"
    THEN /\ screenCaptureRef' = "null"
         /\ isScreenSharing' = FALSE
         /\ screenReported' = FALSE
         /\ previewReported' = "null"
         /\ UNCHANGED <<screenStarting, screenOrphans, screenEnded>>
    ELSE UNCHANGED screenVars

\* client.onClose without the report to the parent: onConnectionChange(false)
\* is not called.
OnClose_NoConnectionReport ==
  /\ isConnected' = FALSE
  /\ connReported' = connReported
  /\ closedEmits' = closedEmits + 1
  /\ OnCloseAudio
  /\ OnCloseScreen
  /\ UNCHANGED playerDestroyed

\* client.onClose that also tears the audio player down, as if every
\* disconnect released the output device.
OnClose_DestroysPlayer ==
  /\ isConnected' = FALSE
  /\ connReported' = FALSE
  /\ closedEmits' = closedEmits + 1
  /\ OnCloseAudio
  /\ OnCloseScreen
  /\ playerDestroyed' = playerDestroyed + 1

\* client.onClose
OnClose ==
  /\ isConnected' = FALSE
  /\ connReported' = FALSE
  /\ closedEmits' = closedEmits + 1
  /\ OnCloseAudio
  /\ OnCloseScreen
  /\ UNCHANGED playerDestroyed

\* client.onErrorMessage: alerts and reports the connection lost; the media
\* refs are not touched.
OnErrorMessage ==
  /\ isConnected' = FALSE
  /\ connReported' = FALSE
  /\ UNCHANGED <<audioVars, screenVars>>

\* ------------------------------------------------------------- GeminiLiveAPI

\* startHeartbeat(): a new interval is set and its handle stored; an interval
\* whose handle was stored until now keeps running.
StartHeartbeat ==
  /\ heartbeatStray' = (heartbeatStray \/ heartbeatInterval = "set")
  /\ heartbeatInterval' = "set"

\* stopHeartbeat(): the interval whose handle is stored, if any, is cleared.
StopHeartbeat ==
  /\ heartbeatInterval' = "null"
  /\ UNCHANGED heartbeatStray

\* connect() is valid only from disconnected or error.
CanConnect == connectionState \in {"disconnected", "error"}

\* connect() without the state test: a transport is opened whatever the state.
ClientConnect_Unguarded ==
  /\ webSocket' = "CONNECTING"
  /\ connectionState' = "connecting"
  /\ reconnectAttempts' =
       IF connectionState = "error" THEN 0 ELSE reconnectAttempts
  /\ setupAcked' = FALSE
  /\ startedEmits' = 0
  /\ closedEmits' = 0
  /\ StartHeartbeat

\* connect() that leaves the attempt counter as it is.
ClientConnect_NoReset ==
  IF CanConnect
    THEN /\ webSocket' = "CONNECTING"
         /\ connectionState' = "connecting"
         /\ reconnectAttempts' = reconnectAttempts
         /\ setupAcked' = FALSE
         /\ startedEmits' = 0
         /\ closedEmits' = 0
         /\ StartHeartbeat
    ELSE UNCHANGED <<webSocket, connectionState, reconnectAttempts, setupAcked,
                     startedEmits, closedEmits, heartbeatVars>>

\* client.connect(): opens the Transport Channel, enters connecting and starts
\* the heartbeat; called from error (the retry budget is exhausted) it resets
\* the attempt counter.  Called in any other state it does nothing.
ClientConnect ==
  IF CanConnect
    THEN /\ webSocket' = "CONNECTING"
         /\ connectionState' = "connecting"
         /\ reconnectAttempts' =
              IF connectionState = "error" THEN 0 ELSE reconnectAttempts
         /\ setupAcked' = FALSE
         /\ startedEmits' = 0
         /\ closedEmits' = 0
         /\ StartHeartbeat
    ELSE UNCHANGED <<webSocket, connectionState, reconnectAttempts, setupAcked,
                     startedEmits, closedEmits, heartbeatVars>>

\* client.disconnect(): stops the heartbeat, enters disconnecting and closes
\* the Transport Channel; without a live transport it only stops the
\* heartbeat.
ClientDisconnect ==
  /\ StopHeartbeat
  /\ IF webSocket \in {"CONNECTING", "OPEN"}
       THEN /\ webSocket' = "CLOSING"
            /\ connectionState' = "disconnecting"
            /\ connected' = FALSE
       ELSE UNCHANGED <<webSocket, connectionState, connected>>

\* client.setProjectId(id) that takes the value in every state.
SetProjectId_Unconditional(id) ==
  projectId' = id

\* client.setProjectId(id): rejected while connected.
SetProjectId(id) ==
  projectId' = IF connectionState = "connected" THEN projectId ELSE id

\* The connection state once closure is observed: a closure that disconnect()
\* asked for ends in disconnected; an involuntary one ends in error when the
\* attempt counter has reached maxAttempts, and in disconnected otherwise.
StateAfterClose(state, attempts) ==
  IF state = "disconnecting" THEN "disconnected"
  ELSE IF attempts >= maxReconnectAttempts THEN "error"
  ELSE "disconnected"

\* webSocket.onclose, the auto-reconnect logic, as a function of the flag and
\* the counter: whether a retry is scheduled (one setTimeout, whose handle is
\* not kept), the counter afterwards, and the delay.
ReconnectDecision(auto, attempts) ==
  IF auto /\ attempts < maxReconnectAttempts
    THEN [retry |-> TRUE, attempts |-> attempts + 1,
          delay |-> BackoffDelay(attempts + 1)]
    ELSE [retry |-> FALSE, attempts |-> attempts, delay |-> 0]

\* The retry timer's callback: if (this.autoReconnect) this.connect().
RetryCallback ==
  IF autoReconnect
    THEN ClientConnect
    ELSE UNCHANGED <<webSocket, connectionState, reconnectAttempts, setupAcked,
                     startedEmits, closedEmits, heartbeatVars>>

\* onReceiveMessage for a SETUP_COMPLETE frame: connected, counter reset,
\* started event.
SetupComplete ==
  /\ connected' = TRUE
  /\ reconnectAttempts' = 0
  /\ connectionState' = "connected"
  /\ OnConnectionStarted

\* ------------------------------------------------------------- actions

Init ==
  /\ projectId = ""
  /\ connected = FALSE
  /\ connectionState = "disconnected"
  /\ reconnectAttempts = 0
  /\ autoReconnect = TRUE
  /\ webSocket = "NONE"
  /\ retryTimers = 0
  /\ heartbeatInterval = "null"
  /\ heartbeatStray = FALSE
  /\ config = ""
  /\ isConnected = FALSE
  /\ isAudioStreaming = FALSE
  /\ isScreenSharing = FALSE
  /\ audioStreamerRef = "null"
  /\ screenCaptureRef = "null"
  /\ audioStarting = 0
  /\ audioOrphans = 0
  /\ screenStarting = 0
  /\ screenOrphans = 0
  /\ screenEnded = 0
  /\ connReported = FALSE
  /\ audioReported = FALSE
  /\ screenReported = FALSE
  /\ previewReported = "null"
  /\ rendering = "none"
  /\ playQueue = <<>>
  /\ mounted = TRUE
  /\ playerDestroyed = 0
  /\ setupAcked = FALSE
  /\ startedEmits = 0
  /\ closedEmits = 0
  /\ retryAsked = 0
  /\ openedBy = "none"
  /\ hist = Hist("init")

\* setConfig({projectId: id}): the config state takes the value; the client is
\* updated only when the value is truthy.
SetConfig(id) ==
  /\ config' = id
  /\ IF id # "" THEN SetProjectId(id) ELSE UNCHANGED projectId
  /\ hist' = Hist("setConfig")
  /\ UNCHANGED <<heartbeatVars, connected, connectionState, reconnectAttempts, autoReconnect,
                 webSocket, retryTimers, connVars, audioVars, screenVars,
                 playerVars, lifeVars, ghostVars>>

\* connect() without the project ID test: client.connect() in every case.
Connect_NoProjectCheck ==
  /\ CanConnect => retryTimers < MaxTimers
  /\ ClientConnect
  /\ openedBy' = IF ~CanConnect THEN openedBy
                 ELSE IF connectionState = "error" THEN "errorConnect"
                 ELSE "connect"
  /\ hist' = Hist(IF CanConnect THEN "connect" ELSE "connectIgnored")
  /\ UNCHANGED <<projectId, connected, autoReconnect, retryTimers, config, lifeVars, playerVars,
                 connVars, audioVars, screenVars, retryAsked>>

\* connect(): alerts and returns when the client has no project ID, else
\* client.connect().
Connect ==
  \/ /\ projectId = ""
     /\ hist' = [Hist("connectNoProject") EXCEPT !.alert = TRUE]
     /\ UNCHANGED <<clientVars, config, lifeVars, playerVars, connVars, audioVars, screenVars,
                    ghostVars>>
  \/ /\ projectId # ""
     /\ CanConnect => retryTimers < MaxTimers
     /\ ClientConnect
     /\ openedBy' = IF ~CanConnect THEN openedBy
                    ELSE IF connectionState = "error" THEN "errorConnect"
                    ELSE "connect"
     /\ hist' = Hist(IF CanConnect THEN "connect" ELSE "connectIgnored")
     /\ UNCHANGED <<projectId, connected, autoReconnect, retryTimers, config, lifeVars, playerVars,
                    connVars, audioVars, screenVars, retryAsked>>

\* disconnect(): client.disconnect().  Every retry pending at this moment is one
\* the call is to suppress.
Disconnect ==
  /\ ClientDisconnect
  /\ retryAsked' = retryTimers
  /\ hist' = Hist("disconnect")
  /\ UNCHANGED <<projectId, reconnectAttempts, autoReconnect, retryTimers,
                 config, lifeVars, playerVars, connVars, audioVars, screenVars, setupAcked,
                 startedEmits, closedEmits, openedBy>>

\* The auto-reconnect flag is switched from the UI.  Every retry pending at
\* this moment is one the toggle is to suppress.
SetAutoReconnect(b) ==
  /\ b # autoReconnect
  /\ autoReconnect' = b
  /\ retryAsked' = retryTimers
  /\ hist' = Hist("call")
  /\ UNCHANGED <<heartbeatVars, projectId, connected, connectionState, reconnectAttempts,
                 webSocket, retryTimers, config, lifeVars, playerVars, connVars, audioVars,
                 screenVars, setupAcked, startedEmits, closedEmits, openedBy>>

\* webSocket.onopen as it was before the handshake fix: connected is set and
\* the started event fires as soon as the transport opens.
WebSocketOnOpen_SetsConnected ==
  /\ webSocket = "CONNECTING"
  /\ webSocket' = "OPEN"
  /\ connected' = TRUE
  /\ connectionState' = "connected"
  /\ OnConnectionStarted
  /\ hist' = Hist("onopen")
  /\ UNCHANGED <<heartbeatVars, projectId, reconnectAttempts, autoReconnect, retryTimers,
                 config, lifeVars, playerVars, audioVars, screenVars, setupAcked, closedEmits,
                 retryAsked, openedBy>>

\* webSocket.onopen: the setup message is sent; connected is not set here.
WebSocketOnOpen ==
  /\ webSocket = "CONNECTING"
  /\ webSocket' = "OPEN"
  /\ hist' = Hist("onopen")
  /\ UNCHANGED <<heartbeatVars, projectId, connected, connectionState, reconnectAttempts,
                 autoReconnect, retryTimers, config, lifeVars, playerVars, connVars, audioVars,
                 screenVars, ghostVars>>

\* audioPlayer.play(data): the segment goes behind those waiting, and is
\* rendered at once when the player is idle.
Play(data) ==
  IF rendering = "none"
    THEN /\ rendering' = data
         /\ UNCHANGED playQueue
    ELSE /\ Len(playQueue) < MaxQueue
         /\ playQueue' = Append(playQueue, data)
         /\ UNCHANGED rendering

\* Segments in the player, rendering or waiting.
PlayerLoad == Len(playQueue) + (IF rendering = "none" THEN 0 ELSE 1)

\* interrupt() that drops the waiting segments and lets the one rendering
\* play to its end.
Interrupt_KeepsRendering ==
  /\ playQueue' = <<>>
  /\ UNCHANGED rendering

\* audioPlayer.interrupt(): the waiting segments are dropped and the one
\* rendering is halted; nothing happens on an idle player.
Interrupt ==
  /\ rendering' = "none"
  /\ playQueue' = <<>>

\* handleGeminiResponse(message, audioPlayer): AUDIO is played, INTERRUPTED
\* interrupts, every other type is only logged.
HandleGeminiResponse(tag, data) ==
  CASE tag = "AUDIO" -> Play(data)
    [] tag = "INTERRUPTED" -> Interrupt
    [] OTHER -> UNCHANGED playerVars

\* The data of a frame: a segment for AUDIO, not looked at for any other type.
FrameData(tag) == IF tag = "AUDIO" THEN Segments ELSE {""}

\* onReceiveMessage that hands the message to onReceiveResponse before it
\* looks at its type: the dispatch sees the state the frame found.
ReceiveMessage_DispatchFirst(tag) ==
  /\ webSocket = "OPEN"
  /\ IF tag = "SETUP_COMPLETE"
       THEN /\ startedEmits < MaxSetups
            /\ setupAcked' = TRUE
            /\ SetupComplete
       ELSE UNCHANGED <<connected, reconnectAttempts, connectionState,
                        connVars, startedEmits, setupAcked>>
  /\ \E data \in FrameData(tag) :
       /\ HandleGeminiResponse(tag, data)
       /\ hist' = [Hist(IF tag = "SETUP_COMPLETE" THEN "setupComplete"
                                                   ELSE "contentFrame")
                     EXCEPT !.tag = tag, !.seg = data,
                            !.connectedSeen = connected,
                            !.startedSeen = startedEmits,
                            !.dropped =
                               IF tag = "INTERRUPTED" THEN PlayerLoad
                               ELSE IF tag = "AUDIO" /\ hist.tag = "INTERRUPTED"
                                 THEN hist.dropped
                               ELSE 0]
  /\ UNCHANGED <<heartbeatVars, projectId, autoReconnect, webSocket, retryTimers, config, lifeVars,
                 audioVars, screenVars, closedEmits, retryAsked, openedBy>>

\* onReceiveMessage(frame), then onReceiveResponse(message).  A SETUP_COMPLETE
\* frame runs its branch whatever the state, also on a transport that was
\* acknowledged before.
ReceiveMessage(tag) ==
  /\ webSocket = "OPEN"
  /\ IF tag = "SETUP_COMPLETE"
       THEN /\ startedEmits < MaxSetups
            /\ setupAcked' = TRUE
            /\ SetupComplete
       ELSE UNCHANGED <<connected, reconnectAttempts, connectionState,
                        connVars, startedEmits, setupAcked>>
  /\ \E data \in FrameData(tag) :
       /\ HandleGeminiResponse(tag, data)
       /\ hist' = [Hist(IF tag = "SETUP_COMPLETE" THEN "setupComplete"
                                                   ELSE "contentFrame")
                     EXCEPT !.tag = tag, !.seg = data,
                            !.connectedSeen = connected',
                            !.startedSeen = startedEmits',
                            !.dropped =
                               IF tag = "INTERRUPTED" THEN PlayerLoad
                               ELSE IF tag = "AUDIO" /\ hist.tag = "INTERRUPTED"
                                 THEN hist.dropped
                               ELSE 0]
  /\ UNCHANGED <<heartbeatVars, projectId, autoReconnect, webSocket, retryTimers, config, lifeVars,
                 audioVars, screenVars, closedEmits, retryAsked, openedBy>>

\* The segment being rendered ends (the source's onended): the next waiting
\* segment, if any, is rendered.
PlaybackEnded ==
  /\ rendering # "none"
  /\ IF playQueue = <<>>
       THEN /\ rendering' = "none"
            /\ UNCHANGED playQueue
       ELSE /\ rendering' = Head(playQueue)
            /\ playQueue' = Tail(playQueue)
  /\ hist' = Hist("playbackEnded")
  /\ UNCHANGED <<clientVars, config, lifeVars, connVars, audioVars, screenVars,
                 ghostVars>>

\* webSocket.onclose: connected cleared, the closed event, then the
\* auto-reconnect logic.
WebSocketOnClose ==
  LET d == ReconnectDecision(autoReconnect, reconnectAttempts) IN
  /\ webSocket \in {"CONNECTING", "OPEN", "CLOSING"}
  /\ webSocket' = "CLOSED"
  /\ connected' = FALSE
  /\ OnClose
  /\ reconnectAttempts' = d.attempts
  /\ retryTimers' = IF d.retry THEN retryTimers + 1 ELSE retryTimers
  /\ connectionState' = StateAfterClose(connectionState, reconnectAttempts)
  /\ hist' = [Hist("onclose") EXCEPT
                !.voluntary = (connectionState = "disconnecting"),
                !.stale = \/ (audioStreamerRef # "null" /\ ~isAudioStreaming)
                          \/ (screenCaptureRef # "null" /\ ~isScreenSharing),
                !.stopped = (IF audioStreamerRef # "null" THEN 1 ELSE 0)
                            + (IF screenCaptureRef # "null" THEN 1 ELSE 0),
                !.sched = d.delay]
  /\ UNCHANGED <<heartbeatVars, projectId, autoReconnect, config, mounted,
                 playerVars, setupAcked, startedEmits, retryAsked, openedBy>>

\* The controller reports an error on a live transport: the errorMessage event.
WebSocketOnError ==
  /\ webSocket \in {"CONNECTING", "OPEN"}
  /\ OnErrorMessage
  /\ hist' = [Hist("onErrorMessage") EXCEPT !.alert = TRUE]
  /\ UNCHANGED <<clientVars, config, lifeVars, playerVars, ghostVars>>

\* The heartbeat callback without the test of this.connected: the payload
\* goes out whenever the transport is open.
HeartbeatTick_NoConnectedTest(stray) ==
  /\ IF stray THEN heartbeatStray ELSE heartbeatInterval = "set"
  /\ hist' = [Hist("heartbeatTick") EXCEPT !.sent = (webSocket = "OPEN")]
  /\ UNCHANGED <<clientVars, config, lifeVars, playerVars, connVars, audioVars,
                 screenVars, ghostVars>>

\* A running heartbeat interval fires: the payload is sent if the client is
\* connected and the transport open.  stray tells whether the interval is one
\* whose handle is no longer stored.
HeartbeatTick(stray) ==
  /\ IF stray THEN heartbeatStray ELSE heartbeatInterval = "set"
  /\ hist' = [Hist("heartbeatTick")
                EXCEPT !.sent = (connected /\ webSocket = "OPEN")]
  /\ UNCHANGED <<clientVars, config, lifeVars, playerVars, connVars, audioVars,
                 screenVars, ghostVars>>

\* A pending retry timer expires and its callback runs; asked tells whether it
\* is one of those a disconnect() or flag toggle was to suppress.
RetryTimerFires(asked) ==
  /\ IF asked THEN retryAsked > 0 ELSE retryTimers > retryAsked
  /\ retryTimers' = retryTimers - 1
  /\ retryAsked' = IF asked THEN retryAsked - 1 ELSE retryAsked
  /\ RetryCallback
  /\ openedBy' = IF autoReconnect /\ CanConnect THEN "retry" ELSE openedBy
  /\ hist' = [Hist(IF ~autoReconnect THEN "retrySkipped"
                   ELSE IF CanConnect THEN "retryConnect" ELSE "retryRejected")
                EXCEPT !.asked = asked]
  /\ UNCHANGED <<projectId, connected, autoReconnect, config, lifeVars, playerVars, connVars,
                 audioVars, screenVars>>

\* toggleAudio() guarded by the component's isConnected state instead of
\* client.connected.
ToggleAudio_ChecksUiFlag ==
  \/ /\ ~isConnected
     /\ hist' = [Hist("toggleAudio") EXCEPT !.alert = TRUE]
     /\ UNCHANGED audioVars
  \/ /\ isConnected
     /\ isAudioStreaming
     /\ audioStreamerRef' = "null"
     /\ isAudioStreaming' = FALSE
     /\ audioReported' = FALSE
     /\ hist' = Hist("toggleAudio")
     /\ UNCHANGED <<audioStarting, audioOrphans>>
  \/ /\ isConnected
     /\ ~isAudioStreaming
     /\ AudioObjects + ScreenObjects < MaxProducers
     /\ audioStarting' = audioStarting + 1
     /\ hist' = Hist("toggleAudio")
     /\ UNCHANGED <<isAudioStreaming, audioStreamerRef, audioOrphans,
                    audioReported>>

\* toggleAudio()
ToggleAudio ==
  \/ /\ ~connected
     /\ hist' = [Hist("toggleAudio") EXCEPT !.alert = TRUE]
     /\ UNCHANGED audioVars
  \/ /\ connected
     /\ isAudioStreaming
     /\ audioStreamerRef' = "null"
     /\ isAudioStreaming' = FALSE
     /\ audioReported' = FALSE
     /\ hist' = Hist("toggleAudio")
     /\ UNCHANGED <<audioStarting, audioOrphans>>
  \/ /\ connected
     /\ ~isAudioStreaming
     /\ AudioObjects + ScreenObjects < MaxProducers
     /\ audioStarting' = audioStarting + 1
     /\ hist' = Hist("toggleAudio")
     /\ UNCHANGED <<isAudioStreaming, audioStreamerRef, audioOrphans,
                    audioReported>>

\* await audioStreamer.start() resolves: the permission was granted and the
\* streamer holds the microphone.  The ref takes it; a streamer the ref held
\* until now is referenced by nothing any more.
AudioStartResolved ==
  /\ audioStarting > 0
  /\ audioStarting' = audioStarting - 1
  /\ audioOrphans' = IF audioStreamerRef = "active"
                       THEN audioOrphans + 1 ELSE audioOrphans
  /\ audioStreamerRef' = "active"
  /\ isAudioStreaming' = TRUE
  /\ audioReported' = TRUE
  /\ hist' = Hist("audioStarted")

\* toggleAudio's catch block without its onAudioStreamChange(false): the
\* report stays as the last start or stop left it.
AudioStartRejected_NoReport ==
  /\ audioStarting > 0
  /\ audioStarting' = audioStarting - 1
  /\ isAudioStreaming' = FALSE
  /\ hist' = [Hist("audioStartFailed") EXCEPT !.alert = TRUE]
  /\ UNCHANGED <<audioStreamerRef, audioOrphans, audioReported>>

\* await audioStreamer.start() rejects (NotAllowedError or any other error).
AudioStartRejected ==
  /\ audioStarting > 0
  /\ audioStarting' = audioStarting - 1
  /\ isAudioStreaming' = FALSE
  /\ audioReported' = FALSE
  /\ hist' = [Hist("audioStartFailed") EXCEPT !.alert = TRUE]
  /\ UNCHANGED <<audioStreamerRef, audioOrphans>>

\* toggleAudio() as a step of the program.
AudioCall ==
  /\ ToggleAudio
  /\ UNCHANGED <<clientVars, config, lifeVars, playerVars, connVars, screenVars, ghostVars>>

\* The continuations of the awaited starts of streamers.
AudioEvent ==
  /\ \/ AudioStartResolved
     \/ AudioStartRejected
  /\ UNCHANGED <<clientVars, config, lifeVars, playerVars, connVars, screenVars, ghostVars>>

\* The audio pipeline: the call and the continuations.
AudioStep ==
  \/ AudioCall
  \/ AudioEvent

\* toggleScreen()
ToggleScreen ==
  \/ /\ ~connected
     /\ hist' = [Hist("toggleScreen") EXCEPT !.alert = TRUE]
     /\ UNCHANGED screenVars
  \/ /\ connected
     /\ isScreenSharing
     /\ screenCaptureRef' = "null"
     /\ isScreenSharing' = FALSE
     /\ screenReported' = FALSE
     /\ previewReported' = "null"
     /\ hist' = Hist("toggleScreen")
     /\ UNCHANGED <<screenStarting, screenOrphans, screenEnded>>
  \/ /\ connected
     /\ ~isScreenSharing
     /\ AudioObjects + ScreenObjects < MaxProducers
     /\ screenStarting' = screenStarting + 1
     /\ hist' = Hist("toggleScreen")
     /\ UNCHANGED <<isScreenSharing, screenCaptureRef, screenOrphans, screenEnded,
                    screenReported, previewReported>>

\* await screenCapture.start() resolves: the ref, the flags, the preview, and
\* the track's onended handler is installed.
ScreenStartResolved ==
  /\ screenStarting > 0
  /\ screenStarting' = screenStarting - 1
  /\ screenOrphans' = IF screenCaptureRef = "active"
                        THEN screenOrphans + 1 ELSE screenOrphans
  /\ screenCaptureRef' = "active"
  /\ isScreenSharing' = TRUE
  /\ screenReported' = TRUE
  /\ previewReported' = "stream"
  /\ hist' = Hist("screenStarted")
  /\ UNCHANGED screenEnded

\* await screenCapture.start() rejects.
ScreenStartRejected ==
  /\ screenStarting > 0
  /\ screenStarting' = screenStarting - 1
  /\ isScreenSharing' = FALSE
  /\ screenReported' = FALSE
  /\ hist' = [Hist("screenStartFailed") EXCEPT !.alert = TRUE]
  /\ UNCHANGED <<screenCaptureRef, screenOrphans, screenEnded, previewReported>>

\* The video track of a capture ends outside the program (the browser's "stop
\* sharing"), and its onended handler runs: the flags, the preview and the ref
\* are cleared, whichever capture the ref holds.  The display goes with the
\* track; the capture the ref held, if it is another one, keeps its own.
\* stop() is not called on the capture whose track ended: its production loop
\* stays as start() left it.
\* ofRef tells whether the track is that of the referenced capture.
ScreenTrackEnded(ofRef) ==
  /\ IF ofRef THEN screenCaptureRef = "active" ELSE screenOrphans > 0
  /\ screenOrphans' =
       IF ofRef THEN screenOrphans
       ELSE IF screenCaptureRef = "active" THEN screenOrphans
       ELSE screenOrphans - 1
  /\ screenCaptureRef' = "null"
  /\ isScreenSharing' = FALSE
  /\ screenReported' = FALSE
  /\ previewReported' = "null"
  /\ screenEnded' = screenEnded + 1
  /\ hist' = Hist("trackEnded")
  /\ UNCHANGED screenStarting

\* A tick of a capture's production loop: a frame is taken and handed to the
\* client's send, which drops it unless the session is connected.  afterEnd
\* tells whether the capture is one whose track has ended.
ScreenFrameTick(afterEnd) ==
  /\ IF afterEnd THEN screenEnded > 0 ELSE ScreenDevicesHeld > 0
  /\ hist' = Hist(IF afterEnd THEN "screenFrameAfterEnd" ELSE "screenFrame")
  /\ UNCHANGED screenVars

\* toggleScreen() as a step of the program.
ScreenCall ==
  /\ ToggleScreen
  /\ UNCHANGED <<clientVars, config, lifeVars, playerVars, connVars, audioVars, ghostVars>>

\* The continuations of the awaited starts of captures, the end of a track
\* and the ticks of the production loops.
ScreenEvent ==
  /\ \/ ScreenStartResolved
     \/ ScreenStartRejected
     \/ \E ofRef \in BOOLEAN : ScreenTrackEnded(ofRef)
     \/ \E afterEnd \in BOOLEAN : ScreenFrameTick(afterEnd)
  /\ UNCHANGED <<clientVars, config, lifeVars, playerVars, connVars, audioVars, ghostVars>>

\* The screen pipeline: the call, the continuations and the ticks.
ScreenStep ==
  \/ ScreenCall
  \/ ScreenEvent

\* The component unmounts and the cleanup of its mount effect runs: the client
\* is disconnected if it is connected, the streamer and the capture the refs
\* hold are stopped if they are streaming (the refs keep them), and the audio
\* player is destroyed.  No callback is made.
Unmount ==
  /\ mounted
  /\ mounted' = FALSE
  /\ IF connected
       THEN /\ ClientDisconnect
            /\ retryAsked' = retryTimers
       ELSE UNCHANGED <<webSocket, connectionState, connected, heartbeatVars,
                        retryAsked>>
  /\ audioStreamerRef' =
       IF audioStreamerRef = "active" THEN "stopped" ELSE audioStreamerRef
  /\ screenCaptureRef' =
       IF screenCaptureRef = "active" THEN "stopped" ELSE screenCaptureRef
  /\ playerDestroyed' = playerDestroyed + 1
  /\ hist' = Hist("unmount")
  /\ UNCHANGED <<projectId, reconnectAttempts, autoReconnect, retryTimers,
                 config, isAudioStreaming, isScreenSharing, audioStarting,
                 audioOrphans, screenStarting, screenOrphans, screenEnded,
                 audioReported, screenReported, previewReported, playerVars,
                 connVars, setupAcked, startedEmits, closedEmits, openedBy>>

\* The session calls the parent makes through the component's handle and the
\* UI.  No method of the handle can be called once the component has
\* unmounted.
UserCall ==
  \/ \E id \in ProjectIds : SetConfig(id)
  \/ Connect
  \/ Disconnect
  \/ \E b \in BOOLEAN : SetAutoReconnect(b)

Next ==
  \/ Unmount
  \/ mounted /\ (UserCall \/ AudioCall \/ ScreenCall)
  \/ WebSocketOnOpen
  \/ \E tag \in FrameTags : ReceiveMessage(tag)
  \/ WebSocketOnClose
  \/ WebSocketOnError
  \/ \E asked \in BOOLEAN : RetryTimerFires(asked)
  \/ \E stray \in BOOLEAN : HeartbeatTick(stray)
  \/ AudioEvent
  \/ ScreenEvent
  \/ PlaybackEnded

Spec == Init /\ [][Next]_vars

\* Frame types that leave the audio player as it is when it is idle.
SilentTags == FrameTags \ {"AUDIO"}

\* The session alone: the calls and events of the connection lifecycle, with
\* no media pipeline started and no audio received.
NextSession ==
  \/ \E id \in ProjectIds : SetConfig(id)
  \/ Connect
  \/ Disconnect
  \/ \E b \in BOOLEAN : SetAutoReconnect(b)
  \/ WebSocketOnOpen
  \/ \E tag \in SilentTags : ReceiveMessage(tag)
  \/ WebSocketOnClose
  \/ WebSocketOnError
  \/ \E asked \in BOOLEAN : RetryTimerFires(asked)
  \/ \E stray \in BOOLEAN : HeartbeatTick(stray)

SpecSession == Init /\ [][NextSession]_vars

\* The session from mount to unmount and after: the calls stop at the unmount,
\* the events of the transport and the timers go on.
NextLifetime ==
  \/ Unmount
  \/ mounted /\ UserCall
  \/ WebSocketOnOpen
  \/ \E tag \in SilentTags : ReceiveMessage(tag)
  \/ WebSocketOnClose
  \/ WebSocketOnError
  \/ \E asked \in BOOLEAN : RetryTimerFires(asked)
  \/ \E stray \in BOOLEAN : HeartbeatTick(stray)

SpecLifetime == Init /\ [][NextLifetime]_vars

\* The session with the browser's guarantee that a transport on which close()
\* was called delivers its close event.  A transport that is open may stay
\* open for ever.
FairSession ==
  SpecSession /\ WF_vars(webSocket = "CLOSING" /\ WebSocketOnClose)

\* The media pipelines against the session: the handshake, the closures, the
\* retries of the reconnection policy (autoReconnect stays as the constructor
\* sets it), and the toggles with their continuations.  One project ID is
\* given, and is not changed or cleared afterwards; of the frames only the
\* acknowledgement is delivered.
NextMedia ==
  \/ SetConfig("p1")
  \/ Connect
  \/ Disconnect
  \/ WebSocketOnOpen
  \/ ReceiveMessage("SETUP_COMPLETE")
  \/ WebSocketOnClose
  \/ WebSocketOnError
  \/ \E asked \in BOOLEAN : RetryTimerFires(asked)
  \/ AudioStep
  \/ ScreenStep

SpecMedia == Init /\ [][NextMedia]_vars

\* The playback of the audio received in the session: every frame kind, the
\* closures and the retries, and the end of a rendered segment.
NextPlayback ==
  \/ SetConfig("p1")
  \/ Connect
  \/ Disconnect
  \/ WebSocketOnOpen
  \/ \E tag \in FrameTags : ReceiveMessage(tag)
  \/ WebSocketOnClose
  \/ \E asked \in BOOLEAN : RetryTimerFires(asked)
  \/ PlaybackEnded

SpecPlayback == Init /\ [][NextPlayback]_vars

\* ------------------------------------------------------------- sanity

TypeOK ==
  /\ projectId \in ProjectIds
  /\ connected \in BOOLEAN
  /\ connectionState \in ConnectionStates
  /\ reconnectAttempts \in 0..maxReconnectAttempts
  /\ autoReconnect \in BOOLEAN
  /\ webSocket \in {"NONE", "CONNECTING", "OPEN", "CLOSING", "CLOSED"}
  /\ retryTimers \in 0..MaxTimers
  /\ heartbeatInterval \in {"null", "set"}
  /\ heartbeatStray \in BOOLEAN
  /\ retryAsked \in 0..retryTimers
  /\ AudioObjects + ScreenObjects \in 0..MaxProducers
  /\ mounted \in BOOLEAN
  /\ playerDestroyed \in 0..1
  /\ rendering \in Segments \cup {"none"}
  /\ playQueue \in Seq(Segments)
  /\ Len(playQueue) <= MaxQueue
  /\ rendering = "none" => playQueue = <<>>
  /\ connected <=> connectionState = "connected"

\* ------------------------------------------------------------- media producers and the session

\* C1: in every reachable state an audio or screen Media Producer holds its
\* capture device only while the session connection state is connected.
C1_ProducerActiveOnlyWhileConnected ==
  (AudioDevicesHeld > 0 \/ ScreenDevicesHeld > 0) => connectionState = "connected"

\* C2: the step that runs the closed handler (after a voluntary or an
\* involuntary closure) stops every registered producer handle, whatever the
\* cached isAudioStreaming / isScreenSharing flags say: the handle's device is
\* released, the live reference is cleared, and the off state is notified
\* (onAudioStreamChange(false); onScreenShareChange(false) and
\* onPreviewStreamChange(null)).
C2_ClosedStopsRegisteredHandles ==
  [][hist'.op = "onclose" =>
       /\ audioStreamerRef' = "null"
       /\ screenCaptureRef' = "null"
       /\ audioStreamerRef # "null" =>
            /\ AudioDevicesHeld' = AudioDevicesHeld - 1
            /\ ~isAudioStreaming'
            /\ ~audioReported'
       /\ screenCaptureRef # "null" =>
            /\ ScreenDevicesHeld' = ScreenDevicesHeld - 1
            /\ ~isScreenSharing'
            /\ ~screenReported'
            /\ previewReported' = "null"
       /\ hist'.stopped = (IF audioStreamerRef # "null" THEN 1 ELSE 0)
                          + (IF screenCaptureRef # "null" THEN 1 ELSE 0)
  ]_vars

\* C2 happens: the closed handler has just stopped an audio and a screen
\* handle, at least one of them with its cached flag stale (false).
C2_Witness ==
  /\ hist.op = "onclose"
  /\ hist.stale
  /\ hist.stopped = 2
  /\ audioStreamerRef = "null"
  /\ screenCaptureRef = "null"

\* C3: once the errorMessage handler has run, every live producer handle has
\* been stopped and cleared, and no producer is active.
C3_ErrorMessageStopsProducers ==
  hist.op = "onErrorMessage" =>
    /\ audioStreamerRef = "null"
    /\ screenCaptureRef = "null"
    /\ AudioDevicesHeld = 0
    /\ ScreenDevicesHeld = 0
    /\ ~audioReported
    /\ ~screenReported

\* ------------------------------------------------------------- the handshake

\* C4: after the transport has opened, and for as long as no SETUP_COMPLETE
\* frame has arrived on it (whatever other frames have), the session is in
\* connecting, the connected flag is not set, and onConnectionChange(true) has
\* not been emitted.
C4_ConnectingUntilSetupComplete ==
  (webSocket = "OPEN" /\ ~setupAcked) =>
    /\ connectionState = "connecting"
    /\ ~connected
    /\ startedEmits = 0
    /\ ~connReported
    /\ ~isConnected

\* C4 happens: a frame other than SETUP_COMPLETE has just been received on an
\* open transport that has not been acknowledged.
C4_Witness ==
  /\ hist.op = "contentFrame"
  /\ webSocket = "OPEN"
  /\ ~setupAcked
  /\ connectionState = "connecting"

\* C5: once a SETUP_COMPLETE frame has been received the session has reported
\* connected exactly once for this handshake (one started event, last
\* onConnectionChange value true right after the frame), and the
\* reconnect-attempt counter is 0.
C5_ConnectedOncePerHandshake ==
  /\ startedEmits = (IF setupAcked THEN 1 ELSE 0)
  /\ hist.op = "setupComplete" =>
       /\ connected
       /\ connectionState = "connected"
       /\ isConnected
       /\ connReported
       /\ reconnectAttempts = 0

\* ------------------------------------------------------------- the reconnection policy

\* The delays the policy gives for k = 0..4 with the defaults.
PolicyDelays == <<1000, 2000, 4000, 8000, 16000>>

\* C6 as stated: every involuntary closure observed with attempt count
\* k < maxAttempts schedules exactly one reconnect, with delay
\* baseDelay * 2^k, and the counter becomes k + 1.
C6_Original ==
  [][(/\ hist'.op = "onclose"
      /\ ~hist'.voluntary
      /\ reconnectAttempts < maxReconnectAttempts) =>
       /\ retryTimers' = retryTimers + 1
       /\ hist'.sched = PolicyDelays[reconnectAttempts + 1]
       /\ reconnectAttempts' = reconnectAttempts + 1
  ]_vars

\* C6 amended: every involuntary closure observed while auto-reconnect is
\* enabled, with attempt count k < maxAttempts, schedules exactly one
\* reconnect, with delay baseDelay * 2^k (1000, 2000, 4000, 8000, 16000 ms for
\* k = 0..4), and the counter becomes k + 1.
C6_BackoffWhileEnabled ==
  [][(/\ hist'.op = "onclose"
      /\ ~hist'.voluntary
      /\ autoReconnect
      /\ reconnectAttempts < maxReconnectAttempts) =>
       /\ retryTimers' = retryTimers + 1
       /\ hist'.sched = PolicyDelays[reconnectAttempts + 1]
       /\ hist'.sched = reconnectDelay * (2 ^ reconnectAttempts)
       /\ reconnectAttempts' = reconnectAttempts + 1
  ]_vars

\* C6 happens: an involuntary closure observed with k = 4 has just scheduled
\* the 16000 ms retry.
C6_Witness ==
  /\ hist.op = "onclose"
  /\ ~hist.voluntary
  /\ hist.sched = 16000
  /\ reconnectAttempts = maxReconnectAttempts

\* C7: after maxAttempts involuntary closures in a row (the attempt counter,
\* which each of them raised by one, has reached maxAttempts) the session is
\* in error, no reconnect is scheduled, and the last value reported through
\* onConnectionChange is false; and while the session is in error no automatic
\* reconnect is scheduled or fired: it leaves error only by the caller's
\* connect().
C7_ErrorAfterMaxAttempts ==
  [][/\ (/\ hist'.op = "onclose"
         /\ ~hist'.voluntary
         /\ reconnectAttempts' = maxReconnectAttempts) =>
          /\ connectionState' = "error"
          /\ hist'.sched = 0
          /\ ~connReported'
     /\ connectionState = "error" =>
          /\ retryTimers' <= retryTimers
          /\ hist'.op # "retryConnect"
  ]_vars

\* C8 as stated: an explicit connect() made in error resets the attempt
\* counter, and an involuntary closure of the transport it opened schedules a
\* retry with the initial delay.
C8_Original ==
  [][/\ (connectionState = "error" /\ hist'.op = "connect") =>
          reconnectAttempts' = 0
     /\ (/\ hist'.op = "onclose"
         /\ ~hist'.voluntary
         /\ openedBy = "errorConnect") =>
          /\ retryTimers' = retryTimers + 1
          /\ hist'.sched = reconnectDelay
  ]_vars

\* C8 amended: an explicit connect() made in error resets the attempt counter,
\* and an involuntary closure of the transport it opened, observed while
\* auto-reconnect is enabled, schedules a retry with the initial delay.
C8_ConnectFromErrorResets ==
  [][/\ (connectionState = "error" /\ hist'.op = "connect") =>
          /\ reconnectAttempts' = 0
          /\ connectionState' = "connecting"
     /\ (/\ hist'.op = "onclose"
         /\ ~hist'.voluntary
         /\ openedBy = "errorConnect"
         /\ autoReconnect) =>
          /\ retryTimers' = retryTimers + 1
          /\ hist'.sched = reconnectDelay
          /\ reconnectAttempts' = 1
  ]_vars

\* C8 happens: the transport opened by a connect() from error has just been
\* lost and the 1000 ms retry scheduled.
C8_Witness ==
  /\ hist.op = "onclose"
  /\ ~hist.voluntary
  /\ openedBy = "errorConnect"
  /\ hist.sched = reconnectDelay
  /\ reconnectAttempts = 1

\* C9: the closure that an explicit disconnect() caused does not trigger the
\* reconnection policy: the step that observes it schedules no retry, leaves
\* the attempt counter as it was, and ends in disconnected.
C9_VoluntaryCloseNoReconnect ==
  [][(hist'.op = "onclose" /\ hist'.voluntary) =>
       /\ retryTimers' = retryTimers
       /\ hist'.sched = 0
       /\ reconnectAttempts' = reconnectAttempts
       /\ connectionState' = "disconnected"
  ]_vars

\* C10: a retry that was pending when disconnect() was called or the
\* auto-reconnect flag was toggled performs no connect() when its timer
\* expires.
C10_SuppressedRetryNeverConnects ==
  ~(hist.op = "retryConnect" /\ hist.asked)

\* ------------------------------------------------------------- caller contract

\* C11: connect() called while the client's project ID is empty fails fast:
\* the call alerts the caller, opens no transport, leaves the connection state
\* and the attempt counter as they were, and emits no lifecycle event.
C11_ConnectWithoutProjectFailsFast ==
  [][(/\ projectId = ""
      /\ hist'.op \in {"connectNoProject", "connect", "connectIgnored"}) =>
       /\ hist'.op = "connectNoProject"
       /\ hist'.alert
       /\ UNCHANGED <<clientVars, config, lifeVars, playerVars, connVars, audioVars, screenVars,
                      setupAcked, startedEmits>>
  ]_vars

\* C11 happens: connect() has just been refused for want of a project ID,
\* before any transport was opened.
C11_Witness ==
  /\ hist.op = "connectNoProject"
  /\ hist.alert
  /\ projectId = ""
  /\ webSocket = "NONE"
  /\ connectionState = "disconnected"

C13_ToggleRejectedWhileNotConnected ==
  [][(/\ hist'.op \in {"toggleAudio", "toggleScreen"}
      /\ connectionState # "connected") =>
       /\ hist'.alert
       /\ UNCHANGED <<audioVars, screenVars>>
       /\ AudioObjects' = AudioObjects
       /\ ScreenObjects' = ScreenObjects
       /\ UNCHANGED <<clientVars, connVars>>
  ]_vars

\* C13 happens: toggleAudio() has just been rejected while the session was
\* disconnecting, with the component's isConnected still true.
C13_Witness ==
  /\ hist.op = "toggleAudio"
  /\ hist.alert
  /\ connectionState = "disconnecting"
  /\ isConnected
  /\ audioStarting = 0
  /\ AudioDevicesHeld = 0

\* C14: every disconnect() that closes a transport brings the session to
\* disconnected: the close event follows, the step that observes it ends in
\* disconnected whatever else the closure did, and the closed handler (hence
\* onConnectionChange(false)) runs exactly once for that transport.
C14_DisconnectEndsDisconnected ==
  /\ (connectionState = "disconnecting" ~> connectionState = "disconnected")
  /\ [][(hist'.op = "onclose" /\ hist'.voluntary) =>
          /\ connectionState' = "disconnected"
          /\ webSocket' = "CLOSED"
          /\ closedEmits = 0
          /\ closedEmits' = 1
          /\ ~isConnected'
          /\ ~connReported'
     ]_vars
  /\ [](/\ webSocket \in {"CONNECTING", "OPEN", "CLOSING"} => closedEmits = 0
        /\ webSocket = "CLOSED" => closedEmits = 1)

\* C14 happens: the closure that a disconnect() made after SETUP_COMPLETE
\* caused has just been observed.
C14_Witness ==
  /\ hist.op = "onclose"
  /\ hist.voluntary
  /\ setupAcked
  /\ connectionState = "disconnected"
  /\ closedEmits = 1

\* C15: when the track of a screen capture ends outside the program, the step
\* that notifies the subscribers also runs the cleanup of stop() on that
\* capture (no capture is left with an ended track and a running production
\* loop), and no frame is produced by it afterwards.
C15_TrackEndRunsStopCleanup ==
  /\ hist.op = "trackEnded" =>
       /\ screenEnded = 0
       /\ ~isScreenSharing
       /\ ~screenReported
       /\ previewReported = "null"
  /\ hist.op # "screenFrameAfterEnd"

\* C16: when the start() of a producer fails, the failure is reported to the
\* caller (an alert), the failing producer is not registered and holds no
\* device, the stream-change callback of its kind reports false, and the
\* session (the controller's state and the connection report) is unchanged.
C16_FailedStartLeavesProducerInactive ==
  [][ /\ hist'.op = "audioStartFailed" =>
           /\ hist'.alert
           /\ audioStreamerRef' = audioStreamerRef
           /\ AudioDevicesHeld' = AudioDevicesHeld
           /\ audioStarting' = audioStarting - 1
           /\ ~isAudioStreaming'
           /\ ~audioReported'
           /\ UNCHANGED <<clientVars, connVars>>
      /\ hist'.op = "screenStartFailed" =>
           /\ hist'.alert
           /\ screenCaptureRef' = screenCaptureRef
           /\ ScreenDevicesHeld' = ScreenDevicesHeld
           /\ screenStarting' = screenStarting - 1
           /\ ~isScreenSharing'
           /\ ~screenReported'
           /\ UNCHANGED <<clientVars, connVars>>
    ]_vars

\* A start of the microphone has just failed in a connected session: nothing
\* is registered, nothing is held, the report is false and the session is
\* still connected.
C16_Witness ==
  /\ hist.op = "audioStartFailed"
  /\ hist.alert
  /\ connectionState = "connected"
  /\ isConnected
  /\ audioStreamerRef = "null"
  /\ AudioObjects = 0
  /\ ~audioReported

\* ------------------------------------------------------------- playback

\* C17: whatever the player holds, an INTERRUPTED frame leaves it idle and
\* empty without an error (also when it was idle already), and an AUDIO
\* frame that comes right after it leaves exactly its segment in the player,
\* rendering, with nothing waiting.
C17_InterruptThenEnqueueLeavesOnlySegment ==
  [][ /\ hist'.tag = "INTERRUPTED" =>
           /\ rendering' = "none"
           /\ playQueue' = <<>>
           /\ ~hist'.alert
      /\ (hist.tag = "INTERRUPTED" /\ hist'.tag = "AUDIO") =>
           /\ rendering' = hist'.seg
           /\ playQueue' = <<>>
    ]_vars

\* An INTERRUPTED frame found a segment rendering and at least one waiting,
\* and the AUDIO frame right after it has left its own segment alone in the
\* player.
C17_Witness ==
  /\ hist.tag = "AUDIO"
  /\ hist.dropped >= 2
  /\ rendering = hist.seg
  /\ playQueue = <<>>

\* ------------------------------------------------------------- dispatch order

\* C19: each frame is dispatched to onReceiveResponse by the handler run of
\* its own arrival.  The SETUP_COMPLETE frame is dispatched after the
\* transition to connected and the started event of its handshake, and so is
\* every frame that arrives after it on the same transport.
C19_ConnectedBeforeContentDispatch ==
  /\ hist.op = "setupComplete" =>
       /\ hist.tag = "SETUP_COMPLETE"
       /\ hist.connectedSeen
       /\ hist.startedSeen >= 1
       /\ hist.startedSeen = startedEmits
  /\ (hist.op = "contentFrame" /\ setupAcked) =>
       /\ hist.connectedSeen
       /\ hist.startedSeen >= 1

\* A content frame has just been dispatched on a transport whose setup was
\* acknowledged before: its consumer saw the session connected and the
\* started event already made.
C19_Witness ==
  /\ hist.op = "contentFrame"
  /\ hist.tag = "TEXT"
  /\ setupAcked
  /\ hist.connectedSeen
  /\ hist.startedSeen >= 1
  /\ connReported

\* ------------------------------------------------------------- heartbeat

\* C20: a heartbeat payload is transmitted only while the session is
\* connected: a tick of a heartbeat interval in any other state (after a
\* closure, a disconnect(), an exhausted retry budget, or before the setup is
\* acknowledged) sends nothing.
C20_HeartbeatOnlyWhileConnected ==
  (hist.op = "heartbeatTick" /\ hist.sent) => connectionState = "connected"

\* A heartbeat interval has just fired after the acknowledged session was
\* lost, while a retry's transport is not yet acknowledged: nothing was sent.
C20_Witness ==
  /\ hist.op = "heartbeatTick"
  /\ ~hist.sent
  /\ openedBy = "retry"
  /\ webSocket = "OPEN"
  /\ connectionState = "connecting"

\* ------------------------------------------------------------- configuration

\* C18: a setConfig call that carries a project ID while the session is
\* connected leaves the controller's project ID as it was.
C18_ProjectIdRejectedWhileConnected ==
  [][ (hist'.op = "setConfig" /\ connectionState = "connected")
        => projectId' = projectId ]_vars

\* A setConfig with another project ID has just been made on a connected
\* session: the form holds the new value, the controller the one it connected
\* with.
C18_Witness ==
  /\ hist.op = "setConfig"
  /\ connectionState = "connected"
  /\ config = "p2"
  /\ projectId = "p1"

\* ------------------------------------------------------------- heartbeat and retries

\* C21: in every reachable state at most one of the two activities is live:
\* the heartbeat emitting in the connected steady state, or a reconnect retry
\* scheduled and pending.  In particular no retry timer is pending while the
\* session is connected.
C21_HeartbeatExcludesPendingRetry ==
  connectionState = "connected" => retryTimers = 0

\* ------------------------------------------------------------- mount to unmount

\* C22: audioPlayer.destroy() is called only by the unmount cleanup and at
\* most once; no connect, disconnect, closed, errorMessage or retry step
\* destroys the player, so while the component is mounted the player made
\* at mount is intact.
C22_PlayerDestroyedOnlyAtUnmount ==
  [][ /\ playerDestroyed' # playerDestroyed =>
           /\ hist'.op = "unmount"
           /\ playerDestroyed = 0
           /\ playerDestroyed' = 1
      /\ mounted' => playerDestroyed' = 0
    ]_vars

\* The component has just unmounted in a session that had been lost and
\* re-established by a retry: the player is destroyed now, for the first time.
C22_Witness ==
  /\ hist.op = "unmount"
  /\ openedBy = "retry"
  /\ setupAcked
  /\ playerDestroyed = 1

\* ------------------------------------------------------------- overlapping starts

\* C23: under any interleaving of toggleAudio (resp. toggleScreen) calls, at
\* most one audio (resp. screen) capture pipeline holds its device at a time,
\* and every pipeline that does is the one the live ref references, so that
\* it can be stopped later.
C23_OnePipelineAndItIsReferenced ==
  /\ AudioDevicesHeld <= 1
  /\ audioOrphans = 0
  /\ ScreenDevicesHeld <= 1
  /\ screenOrphans = 0

\* C24: when the permission grant of a start() resolves after the closed
\* event of the session was processed (the toggle that started it was made
\* while connected) and the session is not connected, the producer does
\* not end up active: no streamer or capture is registered in the live ref
\* holding its device, and the stream-change callback does not report true.
C24_GrantAfterCloseDoesNotActivate ==
  /\ (hist.op = "audioStarted" /\ closedEmits > 0
        /\ connectionState # "connected") =>
       /\ audioStreamerRef # "active"
       /\ ~audioReported
  /\ (hist.op = "screenStarted" /\ closedEmits > 0
        /\ connectionState # "connected") =>
       /\ screenCaptureRef # "active"
       /\ ~screenReported

\* ------------------------------------------------------------- reports and refs

\* C25: between handler runs, the value last reported through
\* onAudioStreamChange is true exactly when the audio ref holds a streamer,
\* the value last reported through onScreenShareChange is true exactly when
\* the screen ref holds a capture, and the preview last reported is a stream
\* exactly when the screen ref holds a capture.
C25_ReportsMatchRefs ==
  /\ audioReported <=> audioStreamerRef # "null"
  /\ screenReported <=> screenCaptureRef # "null"
  /\ previewReported # "null" <=> screenCaptureRef # "null"

\* ------------------------------------------------------------- the form and the controller

\* C26: after a setConfig call made while the session is not connected, the
\* project ID the controller holds equals the one in the component's
\* configuration, the empty string included; and a connect() that is let
\* through to the controller finds a project ID in the configuration.
C26_ControllerProjectIdFollowsConfig ==
  /\ (hist.op = "setConfig" /\ connectionState # "connected")
       => projectId = config
  /\ hist.op = "connect" => config # ""

\* ------------------------------------------------------------- after the unmount

\* C27: once the unmount cleanup has run, from whatever state, the transport
\* is closed or closing, no retry connects any more, and no streamer or
\* capture holds its device.
C27_UnmountEndsEverything ==
  ~mounted =>
    /\ webSocket \in {"NONE", "CLOSING", "CLOSED"}
    /\ hist.op # "retryConnect"
    /\ AudioDevicesHeld = 0
    /\ ScreenDevicesHeld = 0

====
